---- MODULE Spec2Model ----
(***************************************************************************)
(* CaptchaGenerator (src/src/main.js): one generator instance `this`, the  *)
(* option objects it shares with every other generator of the process,     *)
(* its setters, and generate() against a recording rendering surface.      *)
(*                                                                         *)
(* Strings are sequences of one-character strings.  Opacities are kept in  *)
(* tenths (0.8 is 8).  The x of a layout coordinate is kept in fifths      *)
(* (widhtGap*(i + 0.2) is widhtGap*(5i + 1) fifths), so every number of    *)
(* the model is an integer.  Of the option groups only the fields that     *)
(* decide control flow (text, characters, opacity) are kept; font, size    *)
(* and color are passed through to the surface and never read back.        *)
(*                                                                         *)
(* One generate() call is followed at a time.  It is two steps, split at   *)
(* its only await (resolveImage): setters and constructors of other        *)
(* generators may run between them.  A finished run stays in the state     *)
(* until Settle hands its result to the caller and drops its locals.       *)
(***************************************************************************)
EXTENDS Integers, Sequences, FiniteSets, TLC

VARIABLES
    height,                 \* this.height
    width,                  \* this.width
    background,             \* this.background
    defaultCaptchaOptions,  \* the object exported by ./constants, shared by all generators
    captchaRef,             \* which object this.captcha refers to: "default" or "merged"
    mergedCaptcha,          \* the object merge() built for this.captcha in setCaptcha
    trace,                  \* this.trace
    decoy,                  \* this.decoy
    seed,                   \* hidden state of Math.random
    pc,                     \* position of the generate() call: idle, awaiting, returned, thrown
    canvas,                 \* the run's Canvas: its dimensions and the operations issued to it
    coordinates,            \* the run's local `coordinates`
    called,                 \* the dimensions, character count and text generate() was called with
    settled                 \* what the run's promise settled with

vars == <<height, width, background, defaultCaptchaOptions, captchaRef, mergedCaptcha,
          trace, decoy, seed, pc, canvas, coordinates, called, settled>>

----------------------------------------------------------------------------
(* Bounds and program constants *)

\* Math.random is a deterministic generator with hidden state; the model's has
\* RandomPeriod states and returns seed/RandomPeriod.
RandomPeriod == 3

DefaultHeight == 100
DefaultWidth == 300
ChallengeBytes == 32
DecoyArea == 10000
RandomMargin == 30

Undefined == "undefined"

\* The defaults of ./constants (not among the sources).
initialCaptchaOptions == [characters |-> 6, opacity |-> 10]
defaultTraceOptions == [opacity |-> 10]
defaultDecoyOptions == [opacity |-> 8]

----------------------------------------------------------------------------
(* Inputs *)

NoOptions == [f \in {} |-> 0]

\* Byte values crypto.randomBytes may deliver: 0x09 ("09", no letter) and 0xBE ("be").
ByteValues == {9, 190}

ConstructorInputs == {NoOptions, [height |-> 0, width |-> 150]}

DimensionInputs == {<<150, 150>>, <<50, 5>>}

BackgroundInputs == {"./background.png"}

TextInputs == {<< >>, <<"H", "E", "L", "L", "O">>}

CaptchaInputs ==
    {[text |-> t] : t \in TextInputs}
        \cup {[characters |-> 0], [characters |-> 8], [opacity |-> 0], [opacity |-> 10]}

TraceInputs == {[opacity |-> 0], [opacity |-> 10]}

DecoyInputs == {[opacity |-> 0], [opacity |-> 8]}

----------------------------------------------------------------------------
(* String and byte functions *)

HexDigits == <<"0", "1", "2", "3", "4", "5", "6", "7", "8", "9",
               "a", "b", "c", "d", "e", "f">>

\* Buffer.toString("hex"): two digits per byte, high nibble first.
toHex(bytes) ==
    [k \in 1..(2 * Len(bytes)) |->
        IF k % 2 = 1 THEN HexDigits[(bytes[(k + 1) \div 2] \div 16) + 1]
                     ELSE HexDigits[(bytes[k \div 2] % 16) + 1]]

upperOf(c) ==
    CASE c = "a" -> "A" [] c = "b" -> "B" [] c = "c" -> "C"
      [] c = "d" -> "D" [] c = "e" -> "E" [] c = "f" -> "F"
      [] OTHER -> c

toUpperCase(s) == [k \in 1..Len(s) |-> upperOf(s[k])]

\* The characters /[^a-z]/gi leaves in place.
AsciiLetters ==
    {"a", "b", "c", "d", "e", "f", "g", "h", "i", "j", "k", "l", "m",
     "n", "o", "p", "q", "r", "s", "t", "u", "v", "w", "x", "y", "z",
     "A", "B", "C", "D", "E", "F", "G", "H", "I", "J", "K", "L", "M",
     "N", "O", "P", "Q", "R", "S", "T", "U", "V", "W", "X", "Y", "Z"}

isLetter(c) == c \in AsciiLetters

stripNonLetters(s) == SelectSeq(s, isLetter)

\* String.prototype.substr(0, length): a length below 1 gives the empty string.
substr0(s, length) ==
    SubSeq(s, 1, IF length < Len(s) THEN length ELSE Len(s))

\* s[n] of a string: the character, or undefined past its end.
charAt(s, n) == IF n >= 0 /\ n < Len(s) THEN s[n + 1] ELSE Undefined

\* Outcomes of crypto.randomBytes(n) for n >= 0: a first byte of one value, then
\* bytes of another.
randomBytes(n) ==
    {[k \in 1..n |-> IF k = 1 THEN b1 ELSE b2] : b1 \in ByteValues, b2 \in ByteValues}

\* The challenge text the constructor derives from its random bytes.
challengeText(bytes, characters) ==
    substr0(stripNonLetters(toUpperCase(toHex(bytes))), characters)

----------------------------------------------------------------------------
(* Numbers *)

\* getRandom(n) with Math.random() = s/RandomPeriod.
getRandom(n, s) == ((s * (n - 2 * RandomMargin)) \div RandomPeriod) + RandomMargin

\* Math.random() called k times from state s.
seedAfter(s, k) == (s + k) % RandomPeriod

----------------------------------------------------------------------------
(* Option objects *)

\* deepmerge of two flat option objects: a new object with the fields of both,
\* those of `options` winning.
merge(target, options) ==
    [f \in (DOMAIN target) \cup (DOMAIN options) |->
        IF f \in DOMAIN options THEN options[f] ELSE target[f]]

\* options.height || 100, options.width || 300
orDefault(options, f, default) ==
    IF f \in DOMAIN options /\ options[f] # 0 THEN options[f] ELSE default

\* this.captcha
Captcha == IF captchaRef = "default" THEN defaultCaptchaOptions ELSE mergedCaptcha

\* The `text` accessor.
Text == Captcha.text

NoCanvas == [width |-> 0, height |-> 0, ops |-> << >>]

NoCall == [characters |-> 0, width |-> 0, height |-> 0, text |-> << >>]

\* No generate() run exists: its locals are gone.
NoRun ==
    /\ pc' = "idle"
    /\ canvas' = NoCanvas
    /\ coordinates' = << >>
    /\ called' = NoCall
    /\ settled' = Undefined

----------------------------------------------------------------------------
(* Construction *)

\* new CaptchaGenerator(options), with the 32 random bytes it draws.
Constructor(options, bytes) ==
    /\ height = orDefault(options, "height", DefaultHeight)
    /\ width = orDefault(options, "width", DefaultWidth)
    /\ background = Undefined
    /\ captchaRef = "default"
    /\ mergedCaptcha = NoOptions
    /\ trace = defaultTraceOptions
    /\ decoy = defaultDecoyOptions
    /\ defaultCaptchaOptions =
           merge(initialCaptchaOptions,
                 [text |-> challengeText(bytes, initialCaptchaOptions.characters)])

Init ==
    /\ \E options \in ConstructorInputs, bytes \in randomBytes(ChallengeBytes) :
           Constructor(options, bytes)
    /\ seed \in 0..(RandomPeriod - 1)
    /\ pc = "idle"
    /\ canvas = NoCanvas
    /\ coordinates = << >>
    /\ called = NoCall
    /\ settled = Undefined

\* Another generator is constructed in the same process: its constructor writes
\* the text of the shared defaultCaptchaOptions; its own fields are on a new object.
ConstructOther ==
    /\ pc \in {"idle", "awaiting"}
    /\ \E bytes \in randomBytes(ChallengeBytes) :
           defaultCaptchaOptions' =
               [defaultCaptchaOptions EXCEPT
                   !.text = challengeText(bytes, defaultCaptchaOptions.characters)]
    /\ UNCHANGED <<height, width, background, captchaRef, mergedCaptcha, trace, decoy,
                   seed, pc, canvas, coordinates, called, settled>>

----------------------------------------------------------------------------
(* Setters *)

SetDimension(h, w) ==
    /\ pc \in {"idle", "awaiting"}
    /\ height' = h
    /\ width' = w
    /\ UNCHANGED <<background, defaultCaptchaOptions, captchaRef, mergedCaptcha, trace,
                   decoy, seed, pc, canvas, coordinates, called, settled>>

SetBackground(image) ==
    /\ pc \in {"idle", "awaiting"}
    /\ background' = image
    /\ UNCHANGED <<height, width, defaultCaptchaOptions, captchaRef, mergedCaptcha, trace,
                   decoy, seed, pc, canvas, coordinates, called, settled>>

\* if(options.text): a supplied, non-empty text.
hasText(options) == "text" \in DOMAIN options /\ Len(options.text) > 0

setCaptchaResult(current, options) ==
    IF hasText(options)
    THEN [merge(current, options) EXCEPT !.characters = Len(options.text)]
    ELSE merge(current, options)

SetCaptcha(options) ==
    /\ pc \in {"idle", "awaiting"}
    /\ mergedCaptcha' = setCaptchaResult(Captcha, options)
    /\ captchaRef' = "merged"
    /\ UNCHANGED <<height, width, background, defaultCaptchaOptions, trace, decoy,
                   seed, pc, canvas, coordinates, called, settled>>

SetTrace(options) ==
    /\ pc \in {"idle", "awaiting"}
    /\ trace' = merge(trace, options)
    /\ UNCHANGED <<height, width, background, defaultCaptchaOptions, captchaRef,
                   mergedCaptcha, decoy, seed, pc, canvas, coordinates, called, settled>>

SetDecoy(options) ==
    /\ pc \in {"idle", "awaiting"}
    /\ decoy' = merge(decoy, options)
    /\ UNCHANGED <<height, width, background, defaultCaptchaOptions, captchaRef,
                   mergedCaptcha, trace, seed, pc, canvas, coordinates, called, settled>>

----------------------------------------------------------------------------
(* generate(): layout *)

\* Mutant of layout: the 0.2 offset of a coordinate within its slot is lost.
layoutWithoutOffset(characters, w, h, s) ==
    [k \in 1..characters |->
        <<(w \div characters) * (5 * (k - 1)), getRandom(h, seedAfter(s, k - 1))>>]

\* The loop of lines 124-132: coordinate i (from 0) is
\* <<widhtGap*(i + 0.2) in fifths, getRandom(this.height)>>.
layout(characters, w, h, s) ==
    [k \in 1..characters |->
        <<(w \div characters) * (5 * (k - 1) + 1), getRandom(h, seedAfter(s, k - 1))>>]

\* One coordinate put into a sequence sorted by x, after those that do not
\* compare greater (the comparator is a[0] - b[0]; the sort is stable).
RECURSIVE insertByX(_, _)
insertByX(sorted, c) ==
    IF sorted = << >> THEN <<c>>
    ELSE IF sorted[Len(sorted)][1] <= c[1] THEN Append(sorted, c)
    ELSE Append(insertByX(SubSeq(sorted, 1, Len(sorted) - 1), c), sorted[Len(sorted)])

RECURSIVE sortByX(_)
sortByX(cs) ==
    IF cs = << >> THEN << >>
    ELSE insertByX(sortByX(SubSeq(cs, 1, Len(cs) - 1)), cs[Len(cs)])

----------------------------------------------------------------------------
(* generate(): the rendering surface *)

\* One operation issued to the canvas, with the block of generate() that issued it.
Op(stage, name, args) == [stage |-> stage, op |-> name, args |-> args]

\* What the surface may reject: nothing, the construction of the canvas, the
\* blit of the background, or the serialization.
RejectPoints == {"none", "construct", "background", "output"}

\* A run in progress: the operations issued, the state of Math.random, and
\* "ok" or the error thrown.
issue(r, ops) == [r EXCEPT !.ops = r.ops \o ops]

throw(r, error) == [r EXCEPT !.status = error]

\* new Canvas(this.width, this.height).setTextBaseline("middle").setLineJoin("miter")
newCanvas(rejectAt) ==
    IF rejectAt = "construct"
    THEN [ops |-> << >>, seed |-> seed, status |-> "SurfaceError"]
    ELSE [ops |-> <<Op("setup", "setTextBaseline", <<"middle">>),
                    Op("setup", "setLineJoin", <<"miter">>)>>,
          seed |-> seed,
          status |-> "ok"]

\* canvas.printImage(background, 0, 0, this.width, this.height)
backgroundStage(r, rejectAt) ==
    IF r.status # "ok" THEN r
    ELSE IF rejectAt = "background" THEN throw(r, "SurfaceError")
    ELSE issue(r, <<Op("background", "printImage", <<0, 0, width, height>>)>>)

\* Math.floor(this.height*this.width/10000)
decoyTextCount == (height * width) \div DecoyArea

\* What crypto.randomBytes(decoyTextCount) can return when the decoy block runs.
decoyBytes ==
    IF decoy.opacity > 0 /\ decoyTextCount >= 0 THEN randomBytes(decoyTextCount)
    ELSE {<< >>}

\* crypto.randomBytes(decoyTextCount).toString('hex').split('')
decoyTextOf(bytes) == toHex(bytes)

\* Lines 141-150.  Glyph k takes two values of Math.random: its x, then its y.
decoyStage(r, bytes) ==
    IF r.status # "ok" \/ ~(decoy.opacity > 0) THEN r
    ELSE IF decoyTextCount < 0 THEN throw(r, "RangeError")
    ELSE LET decoyText == decoyTextOf(bytes)
         IN  [issue(r,
                 <<Op("decoy", "setTextFont", << >>),
                   Op("decoy", "setGlobalAlpha", <<decoy.opacity>>),
                   Op("decoy", "setColor", << >>)>>
                 \o [k \in 1..Len(decoyText) |->
                        Op("decoy", "printText",
                           <<decoyText[k],
                             getRandom(width, seedAfter(r.seed, 2 * (k - 1))),
                             getRandom(height, seedAfter(r.seed, 2 * (k - 1) + 1))>>)])
              EXCEPT !.seed = seedAfter(r.seed, 2 * Len(decoyText))]

\* Lines 151-161.  coordinates[0][0] of an empty array throws a TypeError
\* after beginPath() was called.
traceStage(r, cs) ==
    IF r.status # "ok" \/ ~(trace.opacity > 0) THEN r
    ELSE LET begun == issue(r, <<Op("trace", "setStroke", << >>),
                                 Op("trace", "setGlobalAlpha", <<trace.opacity>>),
                                 Op("trace", "beginPath", << >>)>>)
         IN  IF cs = << >> THEN throw(begun, "TypeError")
             ELSE issue(begun,
                     <<Op("trace", "moveTo", cs[1]),
                       Op("trace", "setStrokeWidth", << >>)>>
                     \o [k \in 1..(Len(cs) - 1) |-> Op("trace", "lineTo", cs[k + 1])]
                     \o <<Op("trace", "stroke", << >>)>>)

\* Lines 162-169.
captchaStage(r, cs) ==
    IF r.status # "ok" \/ ~(Captcha.opacity > 0) THEN r
    ELSE issue(r,
            <<Op("captcha", "setTextFont", << >>),
              Op("captcha", "setGlobalAlpha", <<Captcha.opacity>>),
              Op("captcha", "setColor", << >>)>>
            \o [n \in 1..Len(cs) |->
                   Op("captcha", "printText",
                      <<charAt(Captcha.text, n - 1), cs[n][1], cs[n][2]>>)])

\* return canvas.toBuffer()
outputStage(r, rejectAt) ==
    IF r.status # "ok" THEN r
    ELSE IF rejectAt = "output" THEN throw(r, "SurfaceError")
    ELSE throw(issue(r, <<Op("output", "toBuffer", << >>)>>), "buffer")

\* Mutant of drawStages: the challenge text is drawn before the trace.
drawStagesTextBeforeTrace(r, rejectAt, bytes, cs) ==
    outputStage(
        traceStage(captchaStage(decoyStage(r, bytes), cs), cs),
        rejectAt)

\* Lines 141-170: everything after the background, which runs without yielding.
drawStages(r, rejectAt, bytes, cs) ==
    outputStage(
        captchaStage(traceStage(decoyStage(r, bytes), cs), cs),
        rejectAt)

\* The run ends: generate() returned a buffer or threw.
finish(r) ==
    /\ pc' = IF r.status = "buffer" THEN "returned" ELSE "thrown"
    /\ settled' = r.status
    /\ seed' = r.seed

\* What a call of generate() finds: the dimensions, the character count and the text.
callSnapshot ==
    [characters |-> Captcha.characters, width |-> width, height |-> height,
     text |-> Captcha.text]

\* generate() is called and runs to its first await, or to its end when no
\* background is set.
GenerateCall(rejectAt, bytes) ==
    /\ pc = "idle"
    /\ called' = callSnapshot
    /\ LET c == newCanvas(rejectAt)
           cs == sortByX(layout(Captcha.characters, width, height, seed))
           laid == [c EXCEPT !.seed = seedAfter(seed, Len(cs))]
       IN  IF c.status # "ok"
           THEN /\ finish(c)
                /\ canvas' = [width |-> width, height |-> height, ops |-> c.ops]
                /\ coordinates' = << >>
           ELSE IF background # Undefined
           THEN /\ pc' = "awaiting"
                /\ settled' = Undefined
                /\ seed' = laid.seed
                /\ canvas' = [width |-> width, height |-> height, ops |-> c.ops]
                /\ coordinates' = cs
           ELSE LET r == drawStages(laid, rejectAt, bytes, cs)
                IN  /\ finish(r)
                    /\ canvas' = [width |-> width, height |-> height, ops |-> r.ops]
                    /\ coordinates' = cs
    /\ UNCHANGED <<height, width, background, defaultCaptchaOptions, captchaRef,
                   mergedCaptcha, trace, decoy>>

\* resolveImage settles and generate() runs from line 138 to its end, reading
\* this.* as it is then.
GenerateResume(resolved, rejectAt, bytes) ==
    /\ pc = "awaiting"
    /\ LET r == IF resolved
                THEN drawStages(
                         backgroundStage(
                             [ops |-> canvas.ops, seed |-> seed, status |-> "ok"], rejectAt),
                         rejectAt, bytes, coordinates)
                ELSE [ops |-> canvas.ops, seed |-> seed, status |-> "ResolveError"]
       IN  /\ finish(r)
           /\ canvas' = [canvas EXCEPT !.ops = r.ops]
    /\ UNCHANGED <<height, width, background, defaultCaptchaOptions, captchaRef,
                   mergedCaptcha, trace, decoy, coordinates, called>>

\* The caller has the result; the run's canvas and coordinates are out of scope.
Settle ==
    /\ pc \in {"returned", "thrown"}
    /\ NoRun
    /\ UNCHANGED <<height, width, background, defaultCaptchaOptions, captchaRef,
                   mergedCaptcha, trace, decoy, seed>>

----------------------------------------------------------------------------
(* Specification *)

Next ==
    \/ ConstructOther
    \/ \E d \in DimensionInputs : SetDimension(d[1], d[2])
    \/ \E image \in BackgroundInputs : SetBackground(image)
    \/ \E options \in CaptchaInputs : SetCaptcha(options)
    \/ \E options \in TraceInputs : SetTrace(options)
    \/ \E options \in DecoyInputs : SetDecoy(options)
    \/ \E rejectAt \in RejectPoints, bytes \in decoyBytes : GenerateCall(rejectAt, bytes)
    \/ \E resolved \in BOOLEAN, rejectAt \in RejectPoints, bytes \in decoyBytes :
          GenerateResume(resolved, rejectAt, bytes)
    \/ Settle

Spec == Init /\ [][Next]_vars

\* This generator alone in the process, constructed from random bytes that held
\* letters enough for a text of full length.
InitAlone == Init /\ Len(defaultCaptchaOptions.text) = initialCaptchaOptions.characters

NextAlone ==
    \/ \E d \in DimensionInputs : SetDimension(d[1], d[2])
    \/ \E image \in BackgroundInputs : SetBackground(image)
    \/ \E options \in CaptchaInputs : SetCaptcha(options)
    \/ \E options \in TraceInputs : SetTrace(options)
    \/ \E options \in DecoyInputs : SetDecoy(options)
    \/ \E rejectAt \in RejectPoints, bytes \in decoyBytes : GenerateCall(rejectAt, bytes)
    \/ \E resolved \in BOOLEAN, rejectAt \in RejectPoints, bytes \in decoyBytes :
          GenerateResume(resolved, rejectAt, bytes)
    \/ Settle

SpecAlone == InitAlone /\ [][NextAlone]_vars

----------------------------------------------------------------------------
(* Reading the run's canvas *)

isDecoyGlyph(o) == o.stage = "decoy" /\ o.op = "printText"

isCaptchaGlyph(o) == o.stage = "captcha" /\ o.op = "printText"

isPathOp(o) == o.op \in {"beginPath", "moveTo", "lineTo", "stroke"}

isBlit(o) == o.op = "printImage"

DecoyGlyphs == SelectSeq(canvas.ops, isDecoyGlyph)

CaptchaGlyphs == SelectSeq(canvas.ops, isCaptchaGlyph)

TracePath == SelectSeq(canvas.ops, isPathOp)

Blits == SelectSeq(canvas.ops, isBlit)

\* The place of a block in the documented order of layers.
stageRank(stage) ==
    CASE stage = "setup" -> 0
      [] stage = "background" -> 1
      [] stage = "decoy" -> 2
      [] stage = "trace" -> 3
      [] stage = "captcha" -> 4
      [] stage = "output" -> 5

\* The operation that draws, of each block.
drawsOf(stage) ==
    CASE stage = "background" -> {"printImage"}
      [] stage = "decoy" -> {"printText"}
      [] stage = "trace" -> {"beginPath", "moveTo", "lineTo", "stroke"}
      [] stage = "captcha" -> {"printText"}

Drawn(stage) == \E k \in 1..Len(canvas.ops) :
                   canvas.ops[k].stage = stage /\ canvas.ops[k].op \in drawsOf(stage)

Finished == pc \in {"returned", "thrown"}

UpperHexLetters == {"A", "B", "C", "D", "E", "F"}

----------------------------------------------------------------------------
(* Claims *)

\* C1: as long as setCaptcha was never called, the text is the one a constructor
\* derived from 32 random bytes: it has exactly captcha.characters characters,
\* each one of A..F.
C1_ConstructedTextHasConfiguredLength ==
    captchaRef = "default" =>
        /\ Len(Text) = Captcha.characters
        /\ \A k \in 1..Len(Text) : Text[k] \in UpperHexLetters

\* C2: setCaptcha with an override that supplies text = s, the empty string
\* included, leaves captcha.characters = length of s and the text accessor = s.
C2_SetCaptchaTextSetsCharacters ==
    [][\A options \in CaptchaInputs :
          ("text" \in DOMAIN options /\ SetCaptcha(options)) =>
              (Captcha.characters' = Len(options.text) /\ Text' = options.text)]_vars

\* C3: the operations of a run are issued in the order setup, background blit,
\* decoys, trace, challenge text, serialization: none of an earlier block follows
\* one of a later block, and a returned run ends with toBuffer, right after
\* the challenge glyphs when there are any.
C3_DrawOrder ==
    /\ \A j \in 1..Len(canvas.ops) : \A k \in j..Len(canvas.ops) :
           stageRank(canvas.ops[j].stage) <= stageRank(canvas.ops[k].stage)
    /\ \A k \in 1..Len(canvas.ops) :
           canvas.ops[k].op = "toBuffer" => (k = Len(canvas.ops) /\ pc = "returned")
    /\ pc = "returned" =>
           /\ canvas.ops[Len(canvas.ops)].op = "toBuffer"
           /\ CaptchaGlyphs # << >> => isCaptchaGlyph(canvas.ops[Len(canvas.ops) - 1])

\* C3 witness: a returned run that drew all four layers.
C3_AllLayersDrawn ==
    /\ pc = "returned"
    /\ Drawn("background") /\ Drawn("decoy") /\ Drawn("trace") /\ Drawn("captcha")
    /\ Len(CaptchaGlyphs) > 1 /\ Len(DecoyGlyphs) > 1

\* C4: in a run the surface and the image resolution did not reject, each layer
\* whose opacity is 0 issues no drawing operation, every other layer whose
\* opacity is above 0 is still drawn, and a buffer is returned.
C4_ZeroOpacitySkipsOnlyThatLayer ==
    (Finished /\ settled \notin {"SurfaceError", "ResolveError"}) =>
        /\ decoy.opacity = 0 => ~Drawn("decoy")
        /\ trace.opacity = 0 => ~Drawn("trace")
        /\ Captcha.opacity = 0 => ~Drawn("captcha")
        /\ (decoy.opacity = 0 \/ trace.opacity = 0 \/ Captcha.opacity = 0) =>
               /\ settled = "buffer"
               /\ (decoy.opacity > 0 /\ decoyTextCount > 0) => Drawn("decoy")
               /\ (trace.opacity > 0) => Drawn("trace")
               /\ (Captcha.opacity > 0 /\ coordinates # << >>) => Drawn("captcha")

\* C5: a returned run with decoy.opacity > 0 drew exactly
\* floor(height * width / 10000) decoy glyphs.
C5_DecoyGlyphCount ==
    (pc = "returned" /\ decoy.opacity > 0) => Len(DecoyGlyphs) = decoyTextCount

\* C6: a run called with n = captcha.characters >= 1 on width W computes exactly
\* n coordinates, the x of the i-th computed one being floor(W / n) * (i + 0.2)
\* (in fifths: floor(W / n) * (5i + 1)); after the sort they are non-decreasing
\* in x (for W >= 0 the i-th computed is the i-th of the sequence); and a returned
\* run with trace.opacity > 0 issued beginPath, moveTo the first coordinate,
\* lineTo each further coordinate in order, and one stroke.
C6_LayoutAndTracePath ==
    (pc # "idle" /\ canvas.ops # << >> /\ called.characters >= 1) =>
        LET n == called.characters
            gap == canvas.width \div n
            xOf(i) == gap * (5 * i + 1)
        IN  /\ Len(coordinates) = n
            /\ \A i \in 0..(n - 1) :
                   Cardinality({k \in 1..n : coordinates[k][1] = xOf(i)})
                       = Cardinality({j \in 0..(n - 1) : xOf(j) = xOf(i)})
            /\ canvas.width >= 0 => \A i \in 0..(n - 1) : coordinates[i + 1][1] = xOf(i)
            /\ \A k \in 1..(n - 1) : coordinates[k][1] <= coordinates[k + 1][1]
            /\ (pc = "returned" /\ trace.opacity > 0) =>
                   /\ Len(TracePath) = n + 2
                   /\ TracePath[1].op = "beginPath"
                   /\ TracePath[2].op = "moveTo" /\ TracePath[2].args = coordinates[1]
                   /\ \A k \in 2..n :
                          /\ TracePath[k + 1].op = "lineTo"
                          /\ TracePath[k + 1].args = coordinates[k]
                   /\ TracePath[n + 2].op = "stroke"

\* C6 witness: a returned run of 8 coordinates on a width 8 does not divide,
\* with its trace stroked.
C6_TraceThroughEightCoordinates ==
    /\ pc = "returned"
    /\ called.characters = 8
    /\ canvas.width % 8 # 0
    /\ trace.opacity > 0
    /\ Len(TracePath) = 10

\* C7: a returned run with captcha.opacity > 0 drew exactly captcha.characters
\* challenge glyphs, the i-th being the i-th character of the text (never a
\* missing one) at the i-th coordinate.
C7_OneRealGlyphPerCharacter ==
    (pc = "returned" /\ Captcha.opacity > 0) =>
        /\ Len(CaptchaGlyphs) = Captcha.characters
        /\ \A k \in 1..Len(CaptchaGlyphs) :
               /\ k <= Len(Text)
               /\ CaptchaGlyphs[k].args = <<Text[k], coordinates[k][1], coordinates[k][2]>>

\* C8: the text accessor changes only in a setCaptcha call on this instance.
C8_TextChangesOnlyBySetCaptcha ==
    [][Text' = Text \/ (\E options \in CaptchaInputs : SetCaptcha(options))]_vars

\* C9: a run the surface and the image resolution did not reject returned a
\* buffer; a run that failed returned none.
C9_FailsOnlyWhenSurfaceRejects ==
    Finished =>
        /\ settled \notin {"SurfaceError", "ResolveError"} =>
               (pc = "returned" /\ settled = "buffer")
        /\ pc = "thrown" =>
               (settled # "buffer" /\ \A k \in 1..Len(canvas.ops) : canvas.ops[k].op # "toBuffer")

\* C10: a returned run used the configuration it was called with throughout:
\* the background is blitted to the dimensions of the canvas, and the challenge
\* glyphs are, one per coordinate, the characters of the text at the call.
C10_RunUsesOneSnapshot ==
    pc = "returned" =>
        /\ canvas.width = called.width /\ canvas.height = called.height
        /\ \A k \in 1..Len(Blits) : Blits[k].args = <<0, 0, canvas.width, canvas.height>>
        /\ Len(CaptchaGlyphs) \in {0, Len(coordinates)}
        /\ \A k \in 1..Len(CaptchaGlyphs) :
               CaptchaGlyphs[k].args[1] = charAt(called.text, k - 1)

====
